---- MODULE Spec2Model ----
(***************************************************************************)
(* The measurement engine of the network dashboard: the component state    *)
(* (testing, progress, metrics, history, logs, networkInfo), the persisted *)
(* record under 'netdash_history', and the asynchronous run operation      *)
(* runSpeedTest of the time-boxed multi-stream engine, cut at its          *)
(* suspension points (each awaited probe, each timer callback).            *)
(*                                                                         *)
(* Time is in milliseconds, but for the round-trip times of the latency   *)
(* probes, which are in tenths of it.  A throughput sample is 240000 / batch         *)
(* duration in ms (5 MiB * 8 * 6 streams / 2^20 = 240 Mbit per batch), so   *)
(* the batch durations below give whole Mbps figures.  A log entry or      *)
(* result carries the logical instant `now` at which it was created; the   *)
(* clock advances on every read, so the stamps give the creation order.    *)
(* Instant 0 is the mount of the page; what earlier use left behind has    *)
(* stamps below 0.                                                         *)
(***************************************************************************)
EXTENDS Integers, Sequences, FiniteSets, TLC

\* ---------------------------------------------------------------- bounds
\* MaxStamps caps the clock: a run is admitted while the three instants it
\* may read (start entry, result id, end entry) are left, and the other
\* handlers leave an admitted run the two it still needs.
MaxStamps == 6
MaxNetEvents == 1
PriorEvents == 49
PriorResults == 9
MaxPriorBatches == 3
MaxFinalSpeed == 150
MaxFakeTicks == 2

\* ------------------------------------------------------ program constants
LogLimit == 50
HistoryLimit == 10
LatencyProbes == 10
streams == 6
durationLimit == 6000
RampSteps == 20

\* ------------------------------------------------- environment's choices
\* performance.now() differences are fractions of a millisecond: a
\* round-trip time is a number of tenths
PerMs == 10
\* the round-trip times the network may show over the ten latency probes
RttSeries == {<<200, 220, 210, 190, 230, 200, 220, 210, 190, 230>>}
\* the round-trip times a probe may show when the probes are taken one by one
LatRtts == {204, 205, 230}
\* how long a batch of six transfers may take
BatchDurations == {2000, 6000}
\* navigator.connection as the upload estimate may find it: undefined, or
\* an object whose rtt (ms) is low or high
NoConnection == [present |-> FALSE, rtt |-> 0]
Connections == {NoConnection, [present |-> TRUE, rtt |-> 5],
                [present |-> TRUE, rtt |-> 100]}

\* the batches a run may have joined before its last ones: up to
\* MaxPriorBatches of them, of these durations, within the time box
AggDurations == {1000, 1500, 1600, 3200}

\* final downloads (Mbps) and steady round-trip times (tenths of a ms) on
\* either side of what getQoS compares with
QoSSpeeds == {0, 10, 11, 25, 26, 50, 51}
QoSRtts == {4, 494, 495}

\* the instants one run reads
StampsPerRun == Cardinality({"start entry", "result id", "end entry"})
Runs == 1..(MaxStamps \div StampsPerRun)

VARIABLES testing, progress, metrics, history, logs, networkInfo,
          localStorage, netFetch, online, netEvents, now, runs, started,
          invoked, qos

vars == <<testing, progress, metrics, history, logs, networkInfo,
          localStorage, netFetch, online, netEvents, now, runs, started,
          invoked, qos>>

\* ------------------------------------------------------------ arithmetic
RECURSIVE Sum(_)
Sum(s) == IF s = <<>> THEN 0 ELSE Head(s) + Sum(Tail(s))

RECURSIVE MaxOf(_)
MaxOf(s) == IF Len(s) = 1 THEN s[1]
            ELSE LET m == MaxOf(Tail(s)) IN IF s[1] > m THEN s[1] ELSE m

RECURSIVE MinOf(_)
MinOf(s) == IF Len(s) = 1 THEN s[1]
            ELSE LET m == MinOf(Tail(s)) IN IF s[1] < m THEN s[1] ELSE m

Min2(a, b) == IF a < b THEN a ELSE b
Max2(a, b) == IF a > b THEN a ELSE b

\* Math.round(num / den) for num >= 0, den > 0: nearest, halves upwards.
Round(num, den) == (2 * num + den) \div (2 * den)

Take(s, n) == SubSeq(s, 1, Min2(Len(s), n))

\* Array.prototype.sort((a, b) => a - b): insertion into an ascending list.
RECURSIVE Insert(_, _)
Insert(x, s) == IF s = <<>> THEN <<x>>
                ELSE IF x <= Head(s) THEN <<x>> \o s
                ELSE <<Head(s)>> \o Insert(x, Tail(s))

RECURSIVE Sort(_)
Sort(s) == IF s = <<>> THEN <<>> ELSE Insert(Head(s), Sort(Tail(s)))

\* ------------------------------------------------------------- Event Log
LogEntry(t, type, message) == [time |-> t, type |-> type, message |-> message]

\* (the slice left out)
AddLogNoSlice(prev, t, type, message) == <<LogEntry(t, type, message)>> \o prev

\* addLog: setLogs(prev => [{ time, type, message }, ...prev].slice(0, 50))
AddLog(prev, t, type, message) ==
    Take(<<LogEntry(t, type, message)>> \o prev, LogLimit)

\* --------------------------------------------------------- Result History
\* getItem gives null while nothing was stored under the key.
NoItem == [present |-> FALSE, json |-> <<>>]

\* (only the newest entry written)
JSONStringifyNewest(h) ==
    [present |-> TRUE,
     json |-> [k \in 1..Min2(Len(h), 1) |->
                  <<h[k].id, h[k].download, h[k].upload, h[k].ping,
                    h[k].isp>>]]

\* JSON.stringify of the array of results: the text lists, entry by entry
\* in the array's order, the values of the keys in the order they were set
\* (id with the date taken from the same clock, download, upload, ping,
\* isp); the values are whole numbers and plain strings.
JSONStringify(h) ==
    [present |-> TRUE,
     json |-> [k \in 1..Len(h) |->
                  <<h[k].id, h[k].download, h[k].upload, h[k].ping,
                    h[k].isp>>]]

\* JSON.parse of such a text
JSONParse(text) ==
    [k \in 1..Len(text.json) |->
        [id |-> text.json[k][1], download |-> text.json[k][2],
         upload |-> text.json[k][3], ping |-> text.json[k][4],
         isp |-> text.json[k][5]]]

SpeedTestResult(t, m, isp) ==
    [id |-> t, download |-> m.download, upload |-> m.upload,
     ping |-> m.ping, isp |-> isp]

\* (the new entry put last)
UpdatedAtEnd(hist, t, m, isp) ==
    Take(hist \o <<SpeedTestResult(t, m, isp)>>, HistoryLimit)

\* saveResult: updated = [newEntry, ...history].slice(0, 10), where history
\* and networkInfo are the values of the render that created the handler.
Updated(hist, t, m, isp) ==
    Take(<<SpeedTestResult(t, m, isp)>> \o hist, HistoryLimit)

\* loadHistory: const saved = getItem(...); if (saved) setHistory(parse(saved))
LoadHistory(saved, current) ==
    IF saved.present THEN JSONParse(saved) ELSE current

\* ----------------------------------------------------------------- state
ZeroMetrics == [download |-> 0, upload |-> 0, ping |-> 0, jitter |-> 0,
                signalStrength |-> 0]

\* The part of a run that lives in the closure of one runSpeedTest call.
IdleRun == [pc |-> "idle", i |-> 0, pings |-> <<>>, avgPing |-> 0,
            jitter |-> 0, samples |-> <<>>, elapsed |-> 0, inflight |-> 0,
            finalSpeedMbps |-> 0, simulatedUpload |-> 0, upTicks |-> 0,
            upRamp |-> FALSE, history |-> <<>>, isp |-> "",
            connection |-> NoConnection, signal |-> 0]

Ended(pc) == [IdleRun EXCEPT !.pc = pc]

ActivePcs == {"latency", "batch", "wait500", "upload"}
Active(r) == runs[r].pc \in ActivePcs

\* (the thresholds taken as met when reached)
GetQoSInclusive(m) ==
    <<[name |-> "4K Streaming", pass |-> m.download >= 25],
      [name |-> "Online Gaming", pass |-> m.ping <= 50 /\ m.ping >= 0],
      [name |-> "Video Calls", pass |-> m.download >= 10 /\ m.upload >= 2],
      [name |-> "Large Files", pass |-> m.download >= 50]>>

\* getQoS, called by every render: s = metrics.download, p = metrics.ping
GetQoS(m) ==
    <<[name |-> "4K Streaming", pass |-> m.download > 25],
      [name |-> "Online Gaming", pass |-> m.ping < 50 /\ m.ping > 0],
      [name |-> "Video Calls", pass |-> m.download > 10 /\ m.upload > 2],
      [name |-> "Large Files", pass |-> m.download > 50]>>

\* What earlier use leaves behind: k results saved by earlier sessions and n
\* connectivity notifications logged since this page was opened.
\* (result number j of k and event number j of n, newest first, as k calls
\* of saveResult and n calls of addLog leave them)
PriorHistory(k) ==
    [x \in 1..Min2(k, HistoryLimit) |->
        LET j == k - x + 1
        IN  SpeedTestResult(j - PriorResults - PriorEvents,
                            [download |-> 90, upload |-> 18, ping |-> 20],
                            "ExampleISP")]

PriorLog(n) ==
    [x \in 1..Min2(n, LogLimit) |->
        LET j == n - x + 1
        IN  LogEntry(j - PriorEvents,
                     IF j % 2 = 1 THEN "error" ELSE "success",
                     IF j % 2 = 1 THEN "Connection Lost"
                                  ELSE "Connection Restored")]

Sessions == {[results |-> 0, events |-> 0],
             [results |-> PriorResults, events |-> PriorEvents]}

\* The state once the mount effect has run: fetchNetworkInfo is in flight,
\* loadHistory has read the persisted record, the listeners are registered.
Init ==
    \E s \in Sessions :
        /\ testing = FALSE
        /\ progress = 0
        /\ metrics = ZeroMetrics
        /\ localStorage = IF s.results = 0 THEN NoItem
                          ELSE JSONStringify(PriorHistory(s.results))
        /\ history = LoadHistory(localStorage, <<>>)
        /\ logs = PriorLog(s.events)
        /\ networkInfo = [isp |-> "Loading..."]
        /\ netFetch = "pending"
        /\ online = (s.events % 2 = 0)
        /\ netEvents = 0
        /\ now = 0
        /\ runs = [r \in Runs |-> IdleRun]
        /\ started = 0
        /\ invoked = FALSE
        /\ qos = GetQoS(metrics)

\* ------------------------------------------------- the run's computations
fileSizeBits == 5242880 * 8

\* (the guard left out)
BusyNever == FALSE

\* if (testing) return;  (the handler reads the flag of the render that
\* created it; a render follows every setTesting before the next event)
Busy == testing

\* (the loop left after its first probe)
LatencyLoopOnce(i) == i < 1

\* for (let i = 0; i < 10; i++)
LatencyLoop(i) == i < LatencyProbes

\* setProgress(5 + (i))
LatencyProgress(i) == 5 + i

\* Math.round(pings.reduce((a, b) => a + b) / pings.length)
AvgPing(pings) == Round(Sum(pings), Len(pings) * PerMs)

\* (the first sample taken for the lowest)
JitterFromFirst(pings) == Round(MaxOf(pings) - pings[1], PerMs)

\* Math.round(Math.max(...pings) - Math.min(...pings))
Jitter(pings) == Round(MaxOf(pings) - MinOf(pings), PerMs)

\* (batchBits / durationSec) / 1024 / 1024, the batch having taken d ms
\* (fileSizeBits is a multiple of 1024 * 1024; dividing first keeps the
\* product small)
SpeedMbps(d) == ((fileSizeBits \div (1024 * 1024)) * streams * 1000) \div d

\* (the newest sample alone)
CurrentAvgLatest(samples) == samples[Len(samples)]

\* Math.round(samples.reduce((a, b) => a + b) / samples.length)
CurrentAvg(samples) == Round(Sum(samples), Len(samples))

\* (the same without the cap at 80)
ThroughputProgressUncapped(elapsedTime) ==
    20 + (elapsedTime * 60) \div durationLimit

\* Math.min(20 + (elapsedTime / durationLimit) * 60, 80)
ThroughputProgress(elapsedTime) ==
    Min2(20 + (elapsedTime * 60) \div durationLimit, 80)

\* (the loop going on at the limit itself)
LoopContinuesInclusive(elapsedTime) == elapsedTime <= durationLimit

\* while ((performance.now() - testStart) < durationLimit)
LoopContinues(elapsedTime) == elapsedTime < durationLimit

\* (the mean of all samples, whatever their number)
FinalSpeedMbpsUntrimmed(samples) == Round(Sum(samples), Len(samples))

\* samples.sort(); more than 2 samples: mean of samples.slice(1, -1),
\* otherwise the mean of all of them.
FinalSpeedMbps(samples) ==
    LET sorted == Sort(samples)
    IN  IF Len(sorted) > 2
        THEN LET validSamples == SubSeq(sorted, 2, Len(sorted) - 1)
             IN  Round(Sum(validSamples), Len(validSamples))
        ELSE Round(Sum(sorted), Len(sorted))

\* (the ratios of the single-fetch engine: a tenth on a hint that says
\* "slow", three tenths otherwise)
RatioTenthsSingleFetch(connection) ==
    IF connection.present /\ connection.rtt >= 15 THEN 1 ELSE 3

\* ratio = (connection?.rtt < 15) ? 0.8 : 0.2, in tenths
RatioTenths(connection) ==
    IF connection.present /\ connection.rtt < 15 THEN 8 ELSE 2

\* Math.round(finalSpeedMbps * ratio)
SimulatedUpload(finalSpeedMbps, connection) ==
    Round(finalSpeedMbps * RatioTenths(connection), 10)

\* upCurrent is a double that grows by upStep = simulatedUpload / 20 each
\* tick.  For these targets (all those up to 240) twenty additions stay
\* below the target, so that upCurrent >= simulatedUpload first holds on
\* tick 21 ...
RoundsShort ==
    {3, 6, 7, 12, 14, 17, 19, 23, 24, 28, 29, 33, 34, 38, 41, 43, 46, 48, 51,
     53, 56, 58, 61, 63, 66, 68, 71, 76, 81, 82, 86, 87, 91, 92, 96, 97, 101,
     102, 106, 107, 111, 112, 116, 117, 121, 122, 126, 127, 131, 132, 136,
     137, 141, 142, 147, 152, 157, 162, 164, 167, 169, 172, 174, 177, 179,
     182, 184, 187, 189, 192, 194, 197, 199, 202, 204, 207, 209, 212, 214,
     217, 219, 222, 224, 227, 229, 232, 234, 237, 239}

\* ... and for these <<target, tick>> the accumulated double is just below
\* the half that the exact sum is, so Math.round gives one less.
RoundsDown ==
    {<<3, 10>>, <<6, 15>>, <<11, 10>>, <<14, 15>>, <<17, 10>>, <<22, 15>>,
     <<27, 10>>, <<29, 10>>, <<34, 15>>, <<38, 15>>, <<39, 10>>, <<43, 10>>,
     <<49, 10>>, <<53, 10>>, <<58, 15>>, <<59, 10>>, <<63, 10>>, <<66, 15>>,
     <<73, 10>>, <<78, 15>>, <<81, 10>>, <<83, 10>>, <<86, 15>>, <<91, 10>>,
     <<93, 10>>, <<101, 10>>, <<103, 10>>, <<106, 15>>, <<111, 10>>,
     <<113, 10>>, <<121, 10>>, <<122, 15>>, <<123, 10>>, <<126, 15>>,
     <<131, 10>>, <<141, 10>>, <<142, 15>>, <<146, 15>>, <<151, 10>>,
     <<161, 10>>, <<162, 15>>, <<166, 15>>, <<167, 10>>, <<171, 10>>,
     <<177, 10>>, <<181, 10>>, <<182, 15>>, <<187, 10>>, <<191, 10>>,
     <<197, 10>>, <<201, 10>>, <<202, 15>>, <<207, 10>>, <<211, 10>>,
     <<214, 15>>, <<217, 10>>, <<221, 10>>, <<222, 15>>, <<227, 10>>,
     <<231, 10>>, <<234, 15>>, <<237, 10>>}

\* (the comparison made strict)
UpReachedStrict(ticks, simulatedUpload) ==
    ticks * simulatedUpload > RampSteps * simulatedUpload

\* upCurrent >= simulatedUpload after `ticks` additions of upStep
UpReached(ticks, simulatedUpload) ==
    IF simulatedUpload \in RoundsShort
    THEN ticks > RampSteps
    ELSE ticks * simulatedUpload >= RampSteps * simulatedUpload

\* Math.round(upCurrent) after `ticks` additions of upStep
UpShown(ticks, simulatedUpload) ==
    Round(ticks * simulatedUpload, RampSteps)
        - (IF <<simulatedUpload, ticks>> \in RoundsDown THEN 1 ELSE 0)

\* (the cap of the download ramp used for the upload ramp)
RampProgressCap60(prev) == Min2(prev + 1, 60)

\* setProgress(prev => Math.min(prev + 1, 100))
RampProgress(prev) == Min2(prev + 1, 100)

\* (the difference as it comes, below zero for a ping above 100 ms)
SignalStrengthUnclamped(avgPing) == 100 - avgPing

\* signalStrength: Math.max(0, 100 - avgPing)
SignalStrength(avgPing) == Max2(0, 100 - avgPing)

\* (the upload the ramp has shown so far, in place of the estimate)
FinalResultsShown(run) ==
    [download |-> run.finalSpeedMbps,
     upload |-> UpShown(run.upTicks, run.simulatedUpload),
     ping |-> run.avgPing,
     jitter |-> run.jitter,
     signalStrength |-> SignalStrength(run.avgPing)]

\* finalResults = { download: finalSpeedMbps, upload: simulatedUpload,
\*                  ping: avgPing, jitter, signalStrength }
FinalResults(run) ==
    [download |-> run.finalSpeedMbps,
     upload |-> run.simulatedUpload,
     ping |-> run.avgPing,
     jitter |-> run.jitter,
     signalStrength |-> SignalStrength(run.avgPing)]

\* ------------------------------------------------------------ operations
\* Every state update is followed by a render, which shows getQoS() anew.
Render == qos' = GetQoS(metrics')

EnvUnchanged == UNCHANGED <<networkInfo, netFetch, online, netEvents, started>>

\* runSpeedTest, up to its first await: the guard, the resets, the start
\* entry of the log and the first latency probe issued.  The handler of a
\* render sees that render's history and networkInfo.
RunSpeedTest ==
    /\ invoked' = TRUE
    /\ IF Busy
       THEN UNCHANGED <<testing, progress, metrics, history, logs, networkInfo,
                        localStorage, netFetch, online, netEvents, now, runs,
                        started>>
       ELSE /\ now + StampsPerRun <= MaxStamps
            /\ started' = started + 1
            /\ testing' = TRUE
            /\ progress' = 0
            /\ metrics' = [metrics EXCEPT !.download = 0, !.upload = 0,
                                          !.ping = 0, !.jitter = 0]
            /\ now' = now + 1
            /\ logs' = AddLog(logs, now', "info",
                              "Starting Precision Diagnostics...")
            /\ runs' = [runs EXCEPT ![started'] =
                           [IdleRun EXCEPT !.pc = "latency",
                                           !.history = history,
                                           !.isp = networkInfo.isp]]
            /\ UNCHANGED <<history, networkInfo, localStorage, netFetch,
                           online, netEvents>>
    /\ Render

\* the times the next latency probe may take, given those taken so far
NextRtt(pings) ==
    {series[Len(pings) + 1] : series \in
        {x \in RttSeries : Len(x) > Len(pings)
                           /\ SubSeq(x, 1, Len(pings)) = pings}}

\* A latency probe resolves after rtt ms.  After the tenth the averages are
\* published and, with no await in between, the first batch is launched.
LatencyProbeDone(r, rtt) ==
    LET run == runs[r]
        pings == Append(run.pings, rtt)
    IN  /\ run.pc = "latency"
        /\ invoked' = FALSE
        /\ progress' = LatencyProgress(run.i)
        /\ IF LatencyLoop(run.i + 1)
           THEN /\ runs' = [runs EXCEPT ![r].pings = pings, ![r].i = run.i + 1]
                /\ UNCHANGED metrics
           ELSE /\ metrics' = [metrics EXCEPT !.ping = AvgPing(pings),
                                              !.jitter = Jitter(pings)]
                /\ runs' = [runs EXCEPT ![r] =
                               [run EXCEPT !.pc = "batch", !.i = run.i + 1,
                                           !.pings = pings,
                                           !.avgPing = AvgPing(pings),
                                           !.jitter = Jitter(pings),
                                           !.inflight = streams]]
        /\ UNCHANGED <<testing, history, logs, localStorage, now>>
        /\ EnvUnchanged
        /\ Render

\* A latency probe rejects: the loop is outside the try block, so the
\* rejection leaves runSpeedTest and nothing after it runs.
LatencyProbeReject(r) ==
    /\ runs[r].pc = "latency"
    /\ invoked' = FALSE
    /\ runs' = [runs EXCEPT ![r] = Ended("crashed")]
    /\ UNCHANGED <<testing, progress, metrics, history, logs, localStorage,
                   now>>
    /\ EnvUnchanged
    /\ Render

\* One of the batch's fetch + blob pairs resolves while others are pending.
BatchProbeDone(r) ==
    /\ runs[r].pc = "batch"
    /\ runs[r].inflight > 1
    /\ invoked' = FALSE
    /\ runs' = [runs EXCEPT ![r].inflight = @ - 1]
    /\ UNCHANGED <<testing, progress, metrics, history, logs, localStorage,
                   now>>
    /\ EnvUnchanged
    /\ Render

\* The last probe of the batch resolves d ms after the batch began:
\* Promise.all resolves, the sample is taken and published, and the loop
\* either launches the next batch or ends with the final aggregation and
\* the 500 ms timeout of the upload phase.
BatchJoin(r, d) ==
    LET run == runs[r]
        samples == Append(run.samples, SpeedMbps(d))
        elapsedTime == run.elapsed + d
    IN  /\ run.pc = "batch"
        /\ run.inflight = 1
        /\ invoked' = FALSE
        /\ progress' = ThroughputProgress(elapsedTime)
        /\ IF LoopContinues(elapsedTime)
           THEN /\ metrics' = [metrics EXCEPT !.download = CurrentAvg(samples)]
                /\ runs' = [runs EXCEPT ![r].samples = samples,
                                        ![r].elapsed = elapsedTime,
                                        ![r].inflight = streams]
           ELSE /\ metrics' = [metrics EXCEPT
                                  !.download = FinalSpeedMbps(samples)]
                /\ runs' = [runs EXCEPT ![r] =
                               [run EXCEPT !.pc = "wait500",
                                           !.samples = Sort(samples),
                                           !.elapsed = 0, !.inflight = 0,
                                           !.finalSpeedMbps =
                                               FinalSpeedMbps(samples)]]
        /\ UNCHANGED <<testing, history, logs, localStorage, now>>
        /\ EnvUnchanged
        /\ Render

\* (setTesting(false) left out of the catch block)
CatchTestingKept == testing

\* catch (e): addLog('error', ...); setTesting(false)
FailureMessage == "Speed test failed (CORS/Network Error)"

CatchLog(prev, t) == AddLog(prev, t, "error", FailureMessage)

CatchTesting == FALSE

\* (the catch block saving what the run has measured so far)
BatchProbeRejectSaving(r) ==
    LET updated == Updated(runs[r].history, now + 1, metrics, runs[r].isp)
    IN  /\ runs[r].pc = "batch"
        /\ runs[r].inflight >= 1
        /\ invoked' = FALSE
        /\ now' = now + 2
        /\ history' = updated
        /\ localStorage' = JSONStringify(updated)
        /\ logs' = CatchLog(logs, now')
        /\ testing' = CatchTesting
        /\ runs' = [runs EXCEPT ![r] =
                       [Ended("failed") EXCEPT
                           !.inflight = runs[r].inflight - 1]]
        /\ UNCHANGED <<progress, metrics>>
        /\ EnvUnchanged
        /\ Render

\* A probe of the batch rejects: Promise.all rejects at once, the catch
\* block runs, and the other probes of the batch stay in flight.
BatchProbeReject(r) ==
    /\ runs[r].pc = "batch"
    /\ runs[r].inflight >= 1
    /\ invoked' = FALSE
    /\ now' = now + 1
    /\ logs' = CatchLog(logs, now')
    /\ testing' = CatchTesting
    /\ runs' = [runs EXCEPT ![r] =
                   [Ended("failed") EXCEPT !.inflight = runs[r].inflight - 1]]
    /\ UNCHANGED <<progress, metrics, history, localStorage>>
    /\ EnvUnchanged
    /\ Render

\* A probe of a batch whose Promise.all already rejected settles: nobody
\* listens any more.
LateProbeSettle(r) ==
    /\ runs[r].pc = "failed"
    /\ runs[r].inflight > 0
    /\ invoked' = FALSE
    /\ runs' = [runs EXCEPT ![r].inflight = @ - 1]
    /\ UNCHANGED <<testing, progress, metrics, history, logs, localStorage,
                   now>>
    /\ EnvUnchanged
    /\ Render

\* The 500 ms timeout fires: the upload estimate is taken from the hint as
\* it reads now, and the ramp interval (100 ms) and the completion timeout
\* (2500 ms) are set.
UploadTimeout(r, connection) ==
    /\ runs[r].pc = "wait500"
    /\ invoked' = FALSE
    /\ runs' = [runs EXCEPT ![r].pc = "upload",
                            ![r].connection = connection,
                            ![r].simulatedUpload =
                                SimulatedUpload(runs[r].finalSpeedMbps,
                                                connection),
                            ![r].upRamp = TRUE]
    /\ UNCHANGED <<testing, progress, metrics, history, logs, localStorage,
                   now>>
    /\ EnvUnchanged
    /\ Render

\* A tick of upRamp.
RampTick(r) ==
    LET run == runs[r]
        ticks == run.upTicks + 1
    IN  /\ run.pc = "upload"
        /\ run.upRamp
        /\ invoked' = FALSE
        /\ IF UpReached(ticks, run.simulatedUpload)
           THEN /\ metrics' = [metrics EXCEPT !.upload = run.simulatedUpload]
                /\ runs' = [runs EXCEPT ![r].upTicks = ticks,
                                        ![r].upRamp = FALSE]
           ELSE /\ metrics' = [metrics EXCEPT
                                  !.upload = UpShown(ticks,
                                                     run.simulatedUpload)]
                /\ runs' = [runs EXCEPT ![r].upTicks = ticks]
        /\ progress' = RampProgress(progress)
        /\ UNCHANGED <<testing, history, logs, localStorage, now>>
        /\ EnvUnchanged
        /\ Render

\* (the completion without clearInterval(upRamp))
CompleteLeavingRamp(r) ==
    LET run == runs[r]
        finalResults == FinalResults(run)
        updated == Updated(run.history, now + 1, finalResults, run.isp)
    IN  /\ run.pc = "upload"
        /\ run.upTicks >= 1
        /\ invoked' = FALSE
        /\ testing' = FALSE
        /\ progress' = 100
        /\ metrics' = finalResults
        /\ history' = updated
        /\ localStorage' = JSONStringify(updated)
        /\ logs' = AddLog(logs, now + 2, "success", "Test Complete")
        /\ now' = now + 2
        /\ runs' = [runs EXCEPT ![r] =
                       [Ended("done") EXCEPT !.upRamp = run.upRamp]]
        /\ EnvUnchanged
        /\ Render

\* The 2500 ms timeout fires.  It was set after the interval, whose period
\* is shorter, so the first tick has run by then; later ticks may be late.
Complete(r) ==
    LET run == runs[r]
        finalResults == FinalResults(run)
        updated == Updated(run.history, now + 1, finalResults, run.isp)
    IN  /\ run.pc = "upload"
        /\ run.upTicks >= 1
        /\ invoked' = FALSE
        /\ testing' = FALSE
        /\ progress' = 100
        /\ metrics' = finalResults
        /\ history' = updated
        /\ localStorage' = JSONStringify(updated)
        /\ logs' = AddLog(logs, now + 2, "success", "Test Complete")
        /\ now' = now + 2
        /\ runs' = [runs EXCEPT ![r] = Ended("done")]
        /\ EnvUnchanged
        /\ Render

\* the instants an admitted run may still read
Reserved == 2 * Cardinality({r \in Runs : Active(r)})
ClockLeft == now + 1 + Reserved <= MaxStamps

\* fetchNetworkInfo, issued by the mount effect, resolves ...
NetInfoResolve ==
    /\ netFetch = "pending"
    /\ ClockLeft
    /\ invoked' = FALSE
    /\ netFetch' = "done"
    /\ networkInfo' = [isp |-> "ExampleISP"]
    /\ now' = now + 1
    /\ logs' = AddLog(logs, now', "info", "Connected to ExampleISP")
    /\ UNCHANGED <<testing, progress, metrics, history, localStorage, online,
                   netEvents, runs, started>>
    /\ Render

\* ... or fails (rejected fetch, or a response that is not ok).
NetInfoFail ==
    /\ netFetch = "pending"
    /\ ClockLeft
    /\ invoked' = FALSE
    /\ netFetch' = "done"
    /\ networkInfo' = [networkInfo EXCEPT !.isp = "Blocked by AdBlocker"]
    /\ now' = now + 1
    /\ logs' = AddLog(logs, now', "error", "Failed to fetch ISP info")
    /\ UNCHANGED <<testing, progress, metrics, history, localStorage, online,
                   netEvents, runs, started>>
    /\ Render

\* window 'offline' event
HandleOffline ==
    /\ online
    /\ netEvents < MaxNetEvents
    /\ ClockLeft
    /\ invoked' = FALSE
    /\ online' = FALSE
    /\ netEvents' = netEvents + 1
    /\ now' = now + 1
    /\ logs' = AddLog(logs, now', "error", "Connection Lost")
    /\ UNCHANGED <<testing, progress, metrics, history, localStorage,
                   networkInfo, netFetch, runs, started>>
    /\ Render

\* window 'online' event
HandleOnline ==
    /\ ~online
    /\ netEvents < MaxNetEvents
    /\ ClockLeft
    /\ invoked' = FALSE
    /\ online' = TRUE
    /\ netEvents' = netEvents + 1
    /\ now' = now + 1
    /\ logs' = AddLog(logs, now', "success", "Connection Restored")
    /\ UNCHANGED <<testing, progress, metrics, history, localStorage,
                   networkInfo, netFetch, runs, started>>
    /\ Render

RunStep(r) ==
    \/ \E rtt \in NextRtt(runs[r].pings) : LatencyProbeDone(r, rtt)
    \/ LatencyProbeReject(r)
    \/ BatchProbeDone(r)
    \/ \E d \in BatchDurations : BatchJoin(r, d)
    \/ BatchProbeReject(r)
    \/ LateProbeSettle(r)
    \/ \E c \in Connections : UploadTimeout(r, c)
    \/ RampTick(r)
    \/ Complete(r)

Next ==
    \/ RunSpeedTest
    \/ \E r \in Runs : RunStep(r)
    \/ NetInfoResolve
    \/ NetInfoFail
    \/ HandleOffline
    \/ HandleOnline

Spec == Init /\ [][Next]_vars

\* ------------------------------------------- runs picked up at a phase
\* The state of a fresh session in which the first run has come as far as
\* its closure `run` says, the metrics and the progress being m and p.
InRun(run, m, p) ==
    /\ testing = TRUE
    /\ progress = p
    /\ metrics = m
    /\ localStorage = NoItem
    /\ history = <<>>
    /\ logs = AddLog(<<>>, 1, "info", "Starting Precision Diagnostics...")
    /\ networkInfo = [isp |-> "Loading..."]
    /\ netFetch = "pending"
    /\ online = TRUE
    /\ netEvents = 0
    /\ now = 1
    /\ runs = [r \in Runs |->
                  IF r = 1 THEN [run EXCEPT !.history = <<>>,
                                            !.isp = "Loading..."]
                  ELSE IdleRun]
    /\ started = 1
    /\ invoked = FALSE
    /\ qos = GetQoS(m)

\* the closure once the latency phase measured `pings`
AfterLatency(pings) ==
    [IdleRun EXCEPT !.i = Len(pings), !.pings = pings,
                    !.avgPing = AvgPing(pings), !.jitter = Jitter(pings)]

\* the sequences of batch durations a run may have behind it while its
\* loop still runs
PriorBatches ==
    {ds \in UNION {[1..n -> AggDurations] : n \in 0..MaxPriorBatches} :
        LoopContinues(Sum(ds))}

\* A run in its throughput phase: the batches ds are joined and the next
\* batch has been launched.
InitAgg ==
    \E series \in RttSeries, ds \in PriorBatches :
        LET samples == [k \in 1..Len(ds) |-> SpeedMbps(ds[k])]
            run == [AfterLatency(series) EXCEPT
                       !.pc = "batch", !.samples = samples,
                       !.elapsed = Sum(ds), !.inflight = streams]
        IN  InRun(run,
                  [ZeroMetrics EXCEPT
                      !.ping = run.avgPing, !.jitter = run.jitter,
                      !.download = IF ds = <<>> THEN 0
                                   ELSE CurrentAvg(samples)],
                  IF ds = <<>> THEN LatencyProgress(LatencyProbes - 1)
                  ELSE ThroughputProgress(Sum(ds)))

NextAgg ==
    \E r \in Runs :
        \/ BatchProbeDone(r)
        \/ \E d \in BatchDurations : BatchJoin(r, d)

SpecAgg == InitAgg /\ [][NextAgg]_vars

\* A run in its latency phase, two probes to go.
InitLat ==
    \E pings \in [1..(LatencyProbes - 2) -> LatRtts] :
        InRun([AfterLatency(pings) EXCEPT !.pc = "latency", !.avgPing = 0,
                                          !.jitter = 0],
              ZeroMetrics, LatencyProgress(Len(pings) - 1))

NextLat == \E r \in Runs, rtt \in LatRtts : LatencyProbeDone(r, rtt)

SpecLat == InitLat /\ [][NextLat]_vars

\* the samples of a run whose batches all measured v Mbps: as many as it
\* takes to fill the time box (a batch at 40 Mbps takes 6 s)
EvenSamples(v) ==
    [k \in 1..Max2(1, (v + SpeedMbps(durationLimit) - 1)
                          \div SpeedMbps(durationLimit)) |-> v]

\* A run that has just published its final download, the 500 ms timeout
\* pending.
InitUp ==
    \E series \in RttSeries, v \in 0..MaxFinalSpeed :
        LET run == [AfterLatency(series) EXCEPT
                       !.pc = "wait500", !.samples = EvenSamples(v),
                       !.finalSpeedMbps = FinalSpeedMbps(EvenSamples(v))]
        IN  InRun(run,
                  [ZeroMetrics EXCEPT
                      !.ping = run.avgPing, !.jitter = run.jitter,
                      !.download = run.finalSpeedMbps],
                  ThroughputProgress(durationLimit))

NextUp ==
    \E r \in Runs :
        \/ \E c \in Connections : UploadTimeout(r, c)
        \/ RampTick(r)
        \/ Complete(r)

SpecUp == InitUp /\ [][NextUp]_vars

\* A freshly mounted page, or a run that has just published its final
\* download after latency probes of one steady round-trip time.
InitQoS ==
    \/ Init
    \/ \E rtt \in QoSRtts, v \in QoSSpeeds :
          LET run == [AfterLatency([k \in 1..LatencyProbes |-> rtt]) EXCEPT
                         !.pc = "wait500", !.samples = EvenSamples(v),
                         !.finalSpeedMbps = FinalSpeedMbps(EvenSamples(v))]
          IN  InRun(run,
                    [ZeroMetrics EXCEPT
                        !.ping = run.avgPing, !.jitter = run.jitter,
                        !.download = run.finalSpeedMbps],
                    ThroughputProgress(durationLimit))

NextQoS ==
    \/ RunSpeedTest
    \/ NextUp

SpecQoS == InitQoS /\ [][NextQoS]_vars

\* ------------------------------------------------ the single-fetch engine
\* The earlier version of the engine measures the download with one fetch
\* of about 5 MB, ramps the figure up on a 50 ms interval and completes on
\* a 1500 ms timeout set right after the interval.
LatencyProbes000 == 5
downloadSize == 5000000

\* how long the fetch may take (ms), and navigator.connection as the
\* completion may find it
FetchDurations == {500, 1000, 4000}
Connections000 == {[present |-> FALSE, type |-> ""],
                   [present |-> TRUE, type |-> "cellular"],
                   [present |-> TRUE, type |-> "wifi"]}

\* setProgress(10 + (i*2))
LatencyProgress000(i) == 10 + i * 2

\* Math.round(bitsLoaded / durationSeconds / 1024 / 1024), the fetch having
\* taken d ms (the size is divided by 1024 first, which keeps the product
\* small and moves the quotient by less than 2 in 10000)
SpeedMbps000(d) == Round((downloadSize \div 1024) * 8 * 1000, 1024 * d)

\* speedMbps * (connection?.type === 'cellular' ? 0.1 : 0.3), in tenths
RatioTenths000(connection) ==
    IF connection.present /\ connection.type = "cellular" THEN 1 ELSE 3

\* setProgress(prev => Math.min(prev + 1, 60))
RampProgress000(prev) == Min2(prev + 1, 60)

FailureMessage000 == "Speed test failed (Network Error)"

\* A first run of a fresh session whose five latency probes are done and
\* whose download fetch is pending.
Init000 ==
    \E series \in RttSeries :
        LET pings == SubSeq(series, 1, LatencyProbes000)
        IN  /\ testing = TRUE
            /\ progress = LatencyProgress000(LatencyProbes000 - 1)
            /\ metrics = [ZeroMetrics EXCEPT !.ping = AvgPing(pings),
                                             !.jitter = Jitter(pings)]
            /\ localStorage = NoItem
            /\ history = <<>>
            /\ logs = AddLog(<<>>, 1, "info", "Starting Diagnostics...")
            /\ networkInfo = [isp |-> "Loading..."]
            /\ netFetch = "pending"
            /\ online = TRUE
            /\ netEvents = 0
            /\ now = 1
            /\ runs = [r \in Runs |->
                          IF r = 1
                          THEN [AfterLatency(pings) EXCEPT
                                   !.pc = "fetch000",
                                   !.isp = "Loading..."]
                          ELSE IdleRun]
            /\ started = 1
            /\ invoked = FALSE
            /\ qos = GetQoS(metrics)

\* The fetch resolves after d ms: the speed is computed, and the ramp
\* interval (50 ms) and the completion timeout (1500 ms) are set.
FetchDone000(r, d) ==
    /\ runs[r].pc = "fetch000"
    /\ invoked' = FALSE
    /\ runs' = [runs EXCEPT ![r].pc = "ramp000",
                            ![r].finalSpeedMbps = SpeedMbps000(d),
                            ![r].upRamp = TRUE]
    /\ UNCHANGED <<testing, progress, metrics, history, logs, localStorage,
                   now>>
    /\ EnvUnchanged
    /\ Render

\* The fetch rejects: the catch block logs and clears testing.
FetchReject000(r) ==
    /\ runs[r].pc = "fetch000"
    /\ invoked' = FALSE
    /\ now' = now + 1
    /\ logs' = AddLog(logs, now', "error", FailureMessage000)
    /\ testing' = FALSE
    /\ runs' = [runs EXCEPT ![r] = Ended("failed000")]
    /\ UNCHANGED <<progress, metrics, history, localStorage>>
    /\ EnvUnchanged
    /\ Render

\* A tick of the ramp: the interval runs until its own callback clears it,
\* whatever else the run has done by then.
RampTick000(r) ==
    LET run == runs[r]
        ticks == run.upTicks + 1
    IN  /\ run.pc \in {"ramp000", "done000"}
        /\ run.upRamp
        /\ invoked' = FALSE
        /\ IF UpReached(ticks, run.finalSpeedMbps)
           THEN /\ metrics' = [metrics EXCEPT !.download = run.finalSpeedMbps]
                /\ runs' = [runs EXCEPT ![r].upTicks = ticks,
                                        ![r].upRamp = FALSE]
           ELSE /\ metrics' = [metrics EXCEPT
                                  !.download = UpShown(ticks,
                                                       run.finalSpeedMbps)]
                /\ runs' = [runs EXCEPT ![r].upTicks = ticks]
        /\ progress' = RampProgress000(progress)
        /\ UNCHANGED <<testing, history, logs, localStorage, now>>
        /\ EnvUnchanged
        /\ Render

\* The 1500 ms timeout fires.  It was set after the interval, whose period
\* is shorter, so the first tick has run by then; how many more have is up
\* to the host's timer scheduling (a page in the background gets its
\* timers about once a second).  The callback does not clear the interval.
Complete000(r, connection) ==
    LET run == runs[r]
        simulatedUpload == Round(run.finalSpeedMbps
                                     * RatioTenths000(connection), 10)
        finalResults == [download |-> run.finalSpeedMbps,
                         upload |-> simulatedUpload,
                         ping |-> run.avgPing,
                         jitter |-> run.jitter,
                         signalStrength |-> SignalStrength(run.avgPing)]
        updated == Updated(run.history, now + 1, finalResults, run.isp)
    IN  /\ run.pc = "ramp000"
        /\ run.upTicks >= 1
        /\ invoked' = FALSE
        /\ testing' = FALSE
        /\ progress' = 100
        /\ metrics' = finalResults
        /\ history' = updated
        /\ localStorage' = JSONStringify(updated)
        /\ logs' = AddLog(logs, now + 2, "success", "Test Complete")
        /\ now' = now + 2
        /\ runs' = [runs EXCEPT ![r].pc = "done000",
                                ![r].simulatedUpload = simulatedUpload]
        /\ EnvUnchanged
        /\ Render

Next000 ==
    \E r \in Runs :
        \/ \E d \in FetchDurations : FetchDone000(r, d)
        \/ FetchReject000(r)
        \/ RampTick000(r)
        \/ \E c \in Connections000 : Complete000(r, c)

Spec000 == Init000 /\ [][Next000]_vars

\* ------------------------------------------------- the simulated version
\* App.tsx measures the latency with five probes and simulates the rest: a
\* 200 ms interval shows made-up figures until a 3000 ms timeout publishes
\* figures computed from the average ping.  Every change of testing, like
\* the mount, calls fetchNetworkInfo, which ends with a probe of its own
\* and writes its time to metrics.ping.  netFetch counts the lookups under
\* way: those waiting for the address service and those waiting for their
\* probe.  This version keeps no history, log or progress.
LatencyProbesApp == 5
AppPcs == {"appLatency", "appWait", "appDone", "appCrashed"}
AppPage == \A r \in Runs : runs[r].pc \in AppPcs \cup {"idle"}

\* the round-trip times a probe may show (tenths of a ms), those of the
\* five probes of a run and that of a lookup's probe
AppRttSeries == {<<205, 213, 198, 230, 205>>,
                 <<2600, 2400, 2550, 2600, 2700>>}
AppRtts == {205, 2600}
\* navigator.connection as the run may find it
AppConnections ==
    {[present |-> FALSE, effectiveType |-> "", rtt |-> 0]}
        \cup {[present |-> TRUE, effectiveType |-> "4g", rtt |-> 50],
              [present |-> TRUE, effectiveType |-> "3g", rtt |-> 250],
              [present |-> TRUE, effectiveType |-> "2g", rtt |-> 250],
              [present |-> TRUE, effectiveType |-> "slow-2g", rtt |-> 50]}
\* Math.floor(Math.random() * 30) and Math.floor(Math.random() * 10), at
\* the ends of their ranges
FakeDraws == {<<0, 0>>, <<29, 9>>}

\* signal, before Math.floor: by the hint when there is one, else
\* Math.max(0, 100 - (avgPing / 2)), avgPing being the mean of pings
AppSignal(connection, pings) ==
    IF connection.present
    THEN (CASE connection.effectiveType = "4g" -> 90
            [] connection.effectiveType = "3g" -> 60
            [] connection.effectiveType = "2g" -> 30
            [] OTHER -> 100)
         - (IF connection.rtt > 200 THEN 20 ELSE 0)
    ELSE LET den == 2 * Len(pings) * PerMs
         IN  IF Sum(pings) >= 100 * den THEN 0
             ELSE (100 * den - Sum(pings)) \div den

\* Math.floor(k / (avgPing + 10))
AppRate(k, pings) ==
    (k * Len(pings) * PerMs) \div (Sum(pings) + 10 * Len(pings) * PerMs)

\* the metrics the 3000 ms timeout publishes
AppResults(run) ==
    [download |-> AppRate(10000, run.pings),
     upload |-> AppRate(3000, run.pings),
     ping |-> Sum(run.pings) \div (Len(run.pings) * PerMs),
     jitter |-> (MaxOf(run.pings) - MinOf(run.pings)) \div PerMs,
     signalStrength |-> run.signal]

AppUnchanged == UNCHANGED <<progress, history, logs, localStorage, online,
                            netEvents, now, qos>>

\* The state once the mount effect has run.
InitApp ==
    /\ testing = FALSE
    /\ progress = 0
    /\ metrics = ZeroMetrics
    /\ localStorage = NoItem
    /\ history = <<>>
    /\ logs = <<>>
    /\ networkInfo = [isp |-> "Loading..."]
    /\ netFetch = [info |-> 1, probe |-> 0]
    /\ online = TRUE
    /\ netEvents = 0
    /\ now = 0
    /\ runs = [r \in Runs |-> IdleRun]
    /\ started = 0
    /\ invoked = FALSE
    /\ qos = GetQoS(ZeroMetrics)

\* runSpeedTest up to its first await; the change of testing runs the
\* effect, which starts a lookup.
RunSpeedTestApp ==
    /\ AppPage
    /\ invoked' = TRUE
    /\ IF testing
       THEN UNCHANGED <<testing, metrics, networkInfo, netFetch, runs,
                        started>>
       ELSE /\ started + 1 \in Runs
            /\ started' = started + 1
            /\ testing' = TRUE
            /\ metrics' = [metrics EXCEPT !.download = 0, !.upload = 0]
            /\ netFetch' = [netFetch EXCEPT !.info = @ + 1]
            /\ runs' = [runs EXCEPT ![started'] =
                           [IdleRun EXCEPT !.pc = "appLatency"]]
            /\ UNCHANGED networkInfo
    /\ AppUnchanged

\* A latency probe resolves; after the fifth the signal is computed and
\* the interval and the timeout are set.
AppLatencyProbeDone(r, rtt, connection) ==
    LET run == runs[r]
        pings == Append(run.pings, rtt)
    IN  /\ run.pc = "appLatency"
        /\ invoked' = FALSE
        /\ IF run.i + 1 < LatencyProbesApp
           THEN runs' = [runs EXCEPT ![r].pings = pings, ![r].i = run.i + 1]
           ELSE runs' = [runs EXCEPT ![r] =
                            [run EXCEPT !.pc = "appWait", !.i = run.i + 1,
                                        !.pings = pings,
                                        !.connection = NoConnection,
                                        !.signal = AppSignal(connection,
                                                             pings),
                                        !.upRamp = TRUE]]
        /\ UNCHANGED <<testing, metrics, networkInfo, netFetch, started>>
        /\ AppUnchanged

\* A latency probe rejects: nothing catches it, the run just stops.
AppLatencyProbeReject(r) ==
    /\ runs[r].pc = "appLatency"
    /\ invoked' = FALSE
    /\ runs' = [runs EXCEPT ![r].pc = "appCrashed"]
    /\ UNCHANGED <<testing, metrics, networkInfo, netFetch, started>>
    /\ AppUnchanged

\* A tick of the 200 ms interval (the tenth of the previous download is
\* taken whole).
AppFakeTick(r, d, u) ==
    /\ runs[r].pc = "appWait"
    /\ runs[r].upRamp
    /\ runs[r].upTicks < MaxFakeTicks
    /\ invoked' = FALSE
    /\ metrics' = [metrics EXCEPT
                       !.download = d + 10 + metrics.download \div 10,
                       !.upload = u + 5]
    /\ runs' = [runs EXCEPT ![r].upTicks = @ + 1]
    /\ UNCHANGED <<testing, networkInfo, netFetch, started>>
    /\ AppUnchanged

\* The 3000 ms timeout fires; the change of testing starts a lookup.
AppComplete(r) ==
    /\ runs[r].pc = "appWait"
    /\ runs[r].upTicks >= 1
    /\ invoked' = FALSE
    /\ testing' = FALSE
    /\ metrics' = AppResults(runs[r])
    /\ netFetch' = [netFetch EXCEPT !.info = @ + 1]
    /\ runs' = [runs EXCEPT ![r].pc = "appDone", ![r].upRamp = FALSE]
    /\ UNCHANGED <<networkInfo, started>>
    /\ AppUnchanged

\* fetchNetworkInfo: the address service answers and the probe is sent ...
AppInfoResolve ==
    /\ AppPage
    /\ netFetch.info > 0
    /\ invoked' = FALSE
    /\ networkInfo' = [isp |-> "ExampleISP"]
    /\ netFetch' = [info |-> netFetch.info - 1, probe |-> netFetch.probe + 1]
    /\ UNCHANGED <<testing, metrics, runs, started>>
    /\ AppUnchanged

\* ... or the call fails, there or at its probe ...
AppInfoFail ==
    /\ AppPage
    /\ netFetch.info + netFetch.probe > 0
    /\ invoked' = FALSE
    /\ networkInfo' = [networkInfo EXCEPT !.isp = "Unknown (Adblocker?)"]
    /\ \/ netFetch.info > 0 /\ netFetch' = [netFetch EXCEPT !.info = @ - 1]
       \/ netFetch.probe > 0 /\ netFetch' = [netFetch EXCEPT !.probe = @ - 1]
    /\ UNCHANGED <<testing, metrics, runs, started>>
    /\ AppUnchanged

\* ... or its probe resolves after rtt:
\* setMetrics(prev => ({ ...prev, ping: Math.round(end - start) }))
AppProbeDone(rtt) ==
    /\ AppPage
    /\ netFetch.probe > 0
    /\ invoked' = FALSE
    /\ metrics' = [metrics EXCEPT !.ping = Round(rtt, PerMs)]
    /\ netFetch' = [netFetch EXCEPT !.probe = @ - 1]
    /\ UNCHANGED <<testing, networkInfo, runs, started>>
    /\ AppUnchanged

NextApp ==
    \/ RunSpeedTestApp
    \/ \E r \in Runs :
          \/ \E series \in AppRttSeries, c \in AppConnections :
                /\ runs[r].pc = "appLatency"
                /\ SubSeq(series, 1, Len(runs[r].pings)) = runs[r].pings
                /\ AppLatencyProbeDone(r, series[Len(runs[r].pings) + 1], c)
          \/ AppLatencyProbeReject(r)
          \/ \E draw \in FakeDraws : AppFakeTick(r, draw[1], draw[2])
          \/ AppComplete(r)
    \/ AppInfoResolve
    \/ AppInfoFail
    \/ \E rtt \in AppRtts : AppProbeDone(rtt)

SpecApp == InitApp /\ [][NextApp]_vars

\* ------------------------------------------------------ the signal figure
\* Both versions that compute a signal figure side by side: a run of the
\* engine that has just published its final download after latency probes
\* of one steady round-trip time, short or long, or the simulated version
\* from its mount.
SignalRtts == {204, 995, 1005, 1500}
SignalSpeed == 26

InitSignal ==
    \/ \E rtt \in SignalRtts :
          LET run == [AfterLatency([k \in 1..LatencyProbes |-> rtt]) EXCEPT
                         !.pc = "wait500",
                         !.samples = EvenSamples(SignalSpeed),
                         !.finalSpeedMbps =
                             FinalSpeedMbps(EvenSamples(SignalSpeed))]
          IN  InRun(run,
                    [ZeroMetrics EXCEPT
                        !.ping = run.avgPing, !.jitter = run.jitter,
                        !.download = run.finalSpeedMbps],
                    ThroughputProgress(durationLimit))
    \/ InitApp

NextSignal ==
    \/ NextUp
    \/ NextApp

SpecSignal == InitSignal /\ [][NextSignal]_vars

\* ============================================================ properties
ActiveRuns == {r \in Runs : Active(r)}

\* the step admits a run
Admits == started' # started

\* C1: at most one run is active at a time, testing is true for as long as
\* a run is active, and a run is admitted only in a state where testing is
\* false.
C1_OneRunAtATime ==
    /\ [](Cardinality(ActiveRuns) <= 1 /\ (ActiveRuns # {} => testing))
    /\ [][Admits => ~testing]_vars

\* a second run is under way after the first one completed
C1_Witness == runs[1].pc = "done" /\ started = 2 /\ Active(2)

\* C2: an invocation of runSpeedTest in a state where testing is true
\* changes nothing: not the metrics, the history (in memory or persisted),
\* the progress, the flag or the log, and no run (probe, timer) is started.
C2_BusyCallIsNoOp ==
    [][(invoked' /\ testing) =>
          UNCHANGED <<testing, progress, metrics, history, localStorage,
                      logs, runs, started, now, networkInfo>>]_vars

\* runSpeedTest was just called during the upload phase of a run
C2_Witness == invoked /\ testing /\ runs[1].pc = "upload"

\* C3: once a run has ended, by success or by the rejection of any probe,
\* and no other run is under way, testing is false (so that a new run can
\* be started).
C3_EndedRunReleasesLock ==
    (started > 0 /\ ActiveRuns = {}) => ~testing

\* C4: after a latency probe rejected, the log holds the run's error entry
\* and testing is false.
C4_LatencyFailureHandled ==
    \A r \in Runs :
        runs[r].pc = "crashed" =>
            /\ ~testing
            /\ \E k \in 1..Len(logs) :
                  logs[k].type = "error" /\ logs[k].message = FailureMessage

\* C5: the step in which a probe of a batch rejects appends exactly one
\* entry, an error entry, to the log and makes testing false; the run stays
\* failed from then on: it launches no batch and sets no timer.
C5_BatchFailureAborts ==
    [][\A r \in Runs :
          /\ (runs[r].pc = "batch" /\ runs'[r].pc = "failed") =>
                /\ testing' = FALSE
                /\ logs' = Take(<<LogEntry(now', "error", FailureMessage)>>
                                    \o logs, LogLimit)
                /\ now' = now + 1
                /\ UNCHANGED <<history, localStorage>>
          /\ runs[r].pc = "failed" =>
                /\ runs'[r].pc = "failed"
                /\ runs'[r].samples = <<>>
                /\ ~runs'[r].upRamp
                /\ runs'[r].inflight <= runs[r].inflight]_vars

\* a batch failed after an earlier batch of the run had been joined
C5_Witness ==
    runs[1].pc = "failed" /\ ~testing /\ metrics.download > 0
    /\ logs # <<>> /\ logs[1].message = FailureMessage

\* C6: whenever a run has ended and none is under way, progress is 100.
C6_EndedRunAtHundred ==
    (started > 0 /\ ActiveRuns = {}) => progress = 100

\* C7: progress stays within 0..100, the step that admits a run sets it to
\* 0, and no other step lowers it.
C7_ProgressMonotone ==
    /\ [](progress \in 0..100)
    /\ [][IF Admits THEN progress' = 0 ELSE progress' >= progress]_vars

\* the second run's progress is on its way up again after the first run
\* went through every phase up to 100
C7_Witness ==
    runs[1].pc = "done" /\ started = 2 /\ runs[2].pc = "upload"
    /\ progress > 80

\* C8: while the latest run is one that failed on a batch, the metrics show
\* nothing that run measured: download, ping and jitter are as the run's
\* start left them.
C8_NoPartialMetrics ==
    (started > 0 /\ runs[started].pc = "failed") =>
        (metrics.download = 0 /\ metrics.ping = 0 /\ metrics.jitter = 0)

\* C9: the history has at most 10 entries, newest first, and each change
\* of it puts one newer result at the head of what was there, dropping
\* only what then lies beyond the tenth place.
C9_HistoryBounded ==
    /\ [](/\ Len(history) <= HistoryLimit
          /\ \A k \in 1..(Len(history) - 1) :
                history[k].id > history[k + 1].id)
    /\ [][history' # history =>
            /\ Len(history') = Min2(Len(history) + 1, HistoryLimit)
            /\ Tail(history') = Take(history, HistoryLimit - 1)
            /\ \A k \in 1..Len(history) : history'[1].id > history[k].id]_vars

\* two results were added to a history that held results before: it is
\* full and its oldest entry has gone
C9_Witness ==
    /\ Len(history) = HistoryLimit
    /\ history[2].id > 0
    /\ history[HistoryLimit].id < 0

\* C10: the log has at most 50 entries, newest first, and each change of
\* it puts one newer entry at the head of what was there, dropping only
\* what then lies beyond the fiftieth place.
C10_LogBounded ==
    /\ [](/\ Len(logs) <= LogLimit
          /\ \A k \in 1..(Len(logs) - 1) : logs[k].time > logs[k + 1].time)
    /\ [][logs' # logs =>
            /\ Len(logs') = Min2(Len(logs) + 1, LogLimit)
            /\ Tail(logs') = Take(logs, LogLimit - 1)
            /\ \A k \in 1..Len(logs) : logs'[1].time > logs[k].time]_vars

\* the log is full of entries of which the oldest have gone, with entries
\* of a run and of the network lookup among them
C10_Witness ==
    /\ Len(logs) = LogLimit
    /\ logs[LogLimit].time > 1 - PriorEvents
    /\ \E k \in 1..Len(logs) : logs[k].message = "Test Complete"
    /\ netFetch = "done"

\* the step is the completion of run r
Completes(r) == runs[r].pc = "upload" /\ runs'[r].pc = "done"

\* C11: the step that completes a run puts exactly one result at the head
\* of the history, carrying the download, the upload estimate and the ping
\* of that run, and exactly one success entry at the head of the log; the
\* result is created before the entry, and both only once the run's upload
\* estimate has been computed.
C11_SuccessAppendsResultThenEntry ==
    [][\A r \in Runs : Completes(r) =>
          /\ Len(history') = Min2(Len(history) + 1, HistoryLimit)
          /\ Tail(history') = Take(history, HistoryLimit - 1)
          /\ history'[1].download = runs[r].finalSpeedMbps
          /\ history'[1].upload = runs[r].simulatedUpload
          /\ history'[1].ping = runs[r].avgPing
          /\ Len(logs') = Min2(Len(logs) + 1, LogLimit)
          /\ Tail(logs') = Take(logs, LogLimit - 1)
          /\ logs'[1].type = "success"
          /\ history'[1].id > now
          /\ history'[1].id < logs'[1].time
          /\ runs[r].upTicks >= 1]_vars

\* a run that measured 120 Mbps down and estimated 96 Mbps up completed
C11_Witness ==
    /\ runs[1].pc = "done"
    /\ history # <<>> /\ history[1].id > 0
    /\ history[1].upload = 96 /\ metrics.upload = 96
    /\ logs[1].type = "success" /\ logs[1].time = history[1].id + 1

\* the step is the failure of run r
Fails(r) == Active(r) /\ runs'[r].pc \in {"failed", "crashed"}

\* C12: a run that fails appends nothing to the history: from its start to
\* its failure the history is the one the run found, the failing step
\* changes neither the history nor the persisted record, and no step but
\* the completion of a run changes either.
C12_FailureLeavesHistory ==
    /\ [](\A r \in Runs : Active(r) => history = runs[r].history)
    /\ [][/\ \A r \in Runs : Fails(r) => UNCHANGED <<history, localStorage>>
          /\ (history' # history \/ localStorage' # localStorage) =>
                \E r \in Runs : Completes(r)]_vars

\* a run failed after an earlier run of the session had saved its result
C12_Witness ==
    /\ runs[1].pc = "done" /\ runs[2].pc = "failed"
    /\ history # <<>> /\ history[1].id > 0
    /\ localStorage.present /\ ~testing

\* run r has published its final download and not yet completed
Aggregated(r) == runs[r].pc \in {"wait500", "upload"}

\* the samples that count: all but one lowest and one highest of three or
\* more, all of one or two
KeptSum(samples) ==
    IF Len(samples) >= 3
    THEN Sum(samples) - MinOf(samples) - MaxOf(samples)
    ELSE Sum(samples)

KeptCount(samples) ==
    IF Len(samples) >= 3 THEN Len(samples) - 2 ELSE Len(samples)

\* C13 as stated: the final download is the mean of the samples that
\* count.
C13_FinalIsExactMean ==
    \A r \in Runs : Aggregated(r) =>
        metrics.download * KeptCount(runs[r].samples)
            = KeptSum(runs[r].samples)

\* C13, amended: the final download is the mean of the samples that count
\* (all but the single lowest and the single highest of three or more
\* samples, all of one or two), rounded to the nearest whole number, a
\* half going up; [10, 12, 100] gives 12 and [50, 70] gives 60.
C13_FinalIsRoundedTrimmedMean ==
    /\ \A r \in Runs : Aggregated(r) =>
           LET n == KeptCount(runs[r].samples)
               sum == KeptSum(runs[r].samples)
           IN  /\ metrics.download = runs[r].finalSpeedMbps
               /\ 2 * sum - n < 2 * n * metrics.download
               /\ 2 * n * metrics.download <= 2 * sum + n
    /\ FinalSpeedMbps(<<10, 12, 100>>) = 12
    /\ FinalSpeedMbps(<<100, 10, 12>>) = 12
    /\ FinalSpeedMbps(<<50, 70>>) = 60

\* four or more unequal samples were aggregated, and the mean of those
\* that count is not a whole number
C13_Witness ==
    /\ Aggregated(1)
    /\ Len(runs[1].samples) >= 4
    /\ MinOf(runs[1].samples) < runs[1].samples[2]
    /\ KeptSum(runs[1].samples) % KeptCount(runs[1].samples) # 0

\* run r has published its ping and jitter, and they are still on show
Published(r) == runs[r].pc \in {"batch", "wait500", "upload"}

\* C14 as stated: the published jitter is the highest sample less the
\* lowest, and the published average lies between the two.
C14_JitterIsSpreadAvgWithin ==
    \A r \in Runs : Published(r) =>
        LET lo == MinOf(runs[r].pings)
            hi == MaxOf(runs[r].pings)
        IN  /\ metrics.jitter * PerMs = hi - lo
            /\ metrics.jitter >= 0
            /\ lo <= metrics.ping * PerMs
            /\ metrics.ping * PerMs <= hi

\* C14, amended: the published jitter is the highest sample less the
\* lowest rounded to the nearest millisecond and is at least 0; the
\* published average is the mean rounded to the nearest millisecond, so it
\* lies within half a millisecond of the range from the lowest to the
\* highest sample; when every sample is a whole number of milliseconds the
\* jitter is exact and the average lies within the range.  The samples
\* [20, 22, 21, 19, 23] give 21 and 4.
C14_RoundedJitterAndAvg ==
    /\ \A r \in Runs : Published(r) =>
           LET pings == runs[r].pings
               n == Len(pings)
               lo == MinOf(pings)
               hi == MaxOf(pings)
               whole == \A k \in 1..n : pings[k] % PerMs = 0
           IN  /\ n >= 2
               /\ metrics.jitter >= 0
               /\ 2 * (hi - lo) - PerMs < 2 * PerMs * metrics.jitter
               /\ 2 * PerMs * metrics.jitter <= 2 * (hi - lo) + PerMs
               /\ 2 * Sum(pings) - n * PerMs < 2 * n * PerMs * metrics.ping
               /\ 2 * n * PerMs * metrics.ping <= 2 * Sum(pings) + n * PerMs
               /\ 2 * lo - PerMs < 2 * PerMs * metrics.ping
               /\ 2 * PerMs * metrics.ping <= 2 * hi + PerMs
               /\ whole => /\ metrics.jitter * PerMs = hi - lo
                           /\ lo <= metrics.ping * PerMs
                           /\ metrics.ping * PerMs <= hi
    /\ AvgPing(<<200, 220, 210, 190, 230>>) = 21
    /\ Jitter(<<200, 220, 210, 190, 230>>) = 4

\* the published average is below every sample, and the samples differ
C14_Witness ==
    /\ Published(1)
    /\ metrics.ping * PerMs < MinOf(runs[1].pings)
    /\ MinOf(runs[1].pings) < MaxOf(runs[1].pings)
    /\ runs[1].pings[1] # MinOf(runs[1].pings)

\* C15: the phases of a run follow one another.  While latency probes are
\* outstanding no throughput probe is in flight and no sample is taken;
\* throughput probes are in flight only once all latency probes resolved
\* and ping and jitter are published; and the upload estimate is made and
\* its ramp runs only once the final download is published, no throughput
\* probe being in flight any more.
C15_PhasesInSequence ==
    \A r \in Runs :
        LET run == runs[r]
        IN  /\ run.pc = "latency" =>
                  /\ Len(run.pings) = run.i /\ run.i < LatencyProbes
                  /\ run.inflight = 0 /\ run.samples = <<>>
                  /\ metrics.download = 0
            /\ (run.pc = "batch" \/ (run.inflight > 0 /\ Active(r))) =>
                  /\ run.pc = "batch"
                  /\ Len(run.pings) = LatencyProbes
                  /\ metrics.ping = run.avgPing
                  /\ metrics.jitter = run.jitter
                  /\ run.inflight \in 1..streams
            /\ run.pc \in {"latency", "batch", "wait500"} =>
                  /\ ~run.upRamp /\ run.upTicks = 0
                  /\ run.simulatedUpload = 0 /\ metrics.upload = 0
            /\ (run.pc = "upload" \/ run.upRamp \/ run.upTicks > 0) =>
                  /\ run.pc = "upload"
                  /\ run.inflight = 0
                  /\ Len(run.samples) >= 1
                  /\ metrics.download = run.finalSpeedMbps
                  /\ metrics.ping = run.avgPing

\* the ramp of a run that joined three batches has ticked
C15_Witness ==
    /\ runs[1].pc = "upload" /\ runs[1].upTicks >= 2
    /\ Len(runs[1].samples) = 3 /\ Len(runs[1].pings) = LatencyProbes
    /\ metrics.upload > 0

\* the throughput probes (fetch + blob pairs) that have not settled
InFlight == Sum([r \in Runs |-> runs[r].inflight])

\* C16: the batches of the throughput phase are separated by a barrier, so
\* that never more than `streams` throughput probes are in flight.
C16_AtMostStreamsInFlight == InFlight <= streams

\* C17: the upload ramp.  The value shown is the sum of `ticks` steps of a
\* twentieth of the target, rounded; it never exceeds the target; the tick
\* on which the sum reaches the target shows the target itself and stops
\* the timer, which is at the latest the twenty-first; and for the target
\* 100 it is the twentieth.
C17_RampReachesTarget ==
    \A r \in Runs : runs[r].pc = "upload" =>
        LET target == runs[r].simulatedUpload
            ticks == runs[r].upTicks
            shown == metrics.upload
        IN  /\ shown \in 0..target
            /\ ticks = 0 => (shown = 0 /\ runs[r].upRamp)
            /\ runs[r].upRamp =>
                  /\ ticks <= RampSteps
                  /\ 2 * (RampSteps * shown - ticks * target) <= RampSteps
                  /\ 2 * (ticks * target - RampSteps * shown) <= RampSteps
            /\ ~runs[r].upRamp =>
                  /\ shown = target
                  /\ ticks * target >= RampSteps * target
                  /\ ticks <= RampSteps + 1
            /\ target = 0 => ticks <= 1
            /\ target = 100 => (runs[r].upRamp <=> ticks < RampSteps)

\* the ramp towards 100 has stopped on its twentieth tick
C17_Witness ==
    /\ runs[1].pc = "upload" /\ runs[1].simulatedUpload = 100
    /\ runs[1].upTicks = RampSteps /\ ~runs[1].upRamp
    /\ metrics.upload = 100

\* upload: Math.floor(3000 / (avgPing + 10)), the upload figure that the
\* simulated run of App.tsx derives from the ping
PingUpload(avgPing) == 3000 \div (avgPing + 10)

C19_QoSVerdicts ==
    /\ Len(qos) = 4
    /\ qos[1].name = "4K Streaming"
    /\ qos[1].pass <=> metrics.download > 25
    /\ qos[2].name = "Online Gaming"
    /\ qos[2].pass <=> (0 < metrics.ping /\ metrics.ping < 50)
    /\ qos[3].name = "Video Calls"
    /\ qos[3].pass <=> (metrics.download > 10 /\ metrics.upload > 2)
    /\ qos[4].name = "Large Files"
    /\ qos[4].pass <=> metrics.download > 50
    /\ (metrics.download = 0 /\ metrics.upload = 0 /\ metrics.ping = 0) =>
           \A k \in 1..4 : ~qos[k].pass

\* the panel shows a download right at the 4K threshold failing it while
\* video calls pass, with the ping right at the gaming threshold
C19_Witness ==
    /\ metrics.download = 25 /\ metrics.upload = 3 /\ metrics.ping = 50
    /\ ~qos[1].pass /\ ~qos[2].pass /\ qos[3].pass /\ ~qos[4].pass

\* C20: the persisted record is the history in full: once a result has
\* been saved the stored array has the entries of the history in memory,
\* in the same order, at most 10 of them (and while none has been saved
\* and none was found at startup both are empty), so that loading it at
\* startup gives exactly the history in memory.
C20_PersistedIsHistory ==
    /\ Len(localStorage.json) = Len(history)
    /\ Len(localStorage.json) <= HistoryLimit
    /\ \A k \in 1..Len(history) :
          localStorage.json[k] = <<history[k].id, history[k].download,
                                   history[k].upload, history[k].ping,
                                   history[k].isp>>
    /\ (history # <<>>) => localStorage.present
    /\ LoadHistory(localStorage, <<>>) = history

\* two runs of a session that found nine results saved theirs: the record
\* holds ten, the two newest first, the oldest one found gone
C20_Witness ==
    /\ runs[1].pc = "done" /\ runs[2].pc = "done"
    /\ Len(localStorage.json) = HistoryLimit
    /\ localStorage.json[1][1] > localStorage.json[2][1]
    /\ localStorage.json[2][1] > 0
    /\ localStorage.json[HistoryLimit][1] < 0

\* C21: between runs, that is in a step that begins and ends with testing
\* false, neither the metrics nor the progress change: nothing left over
\* from a run that has ended writes to them.
C21_QuietBetweenRuns ==
    [][(~testing /\ ~testing') => UNCHANGED <<metrics, progress>>]_vars

\* C22: the signal strength the metrics show is a whole number from 0 to
\* 100 in every reachable state, whatever the average ping and whatever the
\* connection hint, in the engine and in the simulated version.
C22_SignalInRange == metrics.signalStrength \in 0..100

\* a run of the engine has completed with an average ping above 100 ms
C22_Witness ==
    \E r \in Runs : /\ runs[r].pc = "done"
                     /\ metrics.ping > 100
                     /\ metrics.signalStrength = 0

\* C23: the throughput loop launches a batch only at the join of the one
\* before and only when the time since the phase began is below the limit;
\* it takes a sample and leaves the loop only at a join, never with probes
\* of the batch still pending, and leaves only once the limit is reached;
\* so a run that has reached the final aggregation has at least one sample.
C23_TimeBoxedLoop ==
    /\ [](\A r \in Runs :
             /\ runs[r].pc = "batch" =>
                    (runs[r].elapsed < durationLimit /\ runs[r].inflight >= 1)
             /\ Aggregated(r) => runs[r].samples # <<>>)
    /\ [][\A r \in Runs :
             LET run == runs[r]
                 next == runs'[r]
             IN  run.pc = "batch" =>
                    /\ next.pc \in {"batch", "wait500"}
                    /\ (next.pc = "batch" /\ next.inflight > run.inflight) =>
                           /\ run.inflight = 1
                           /\ next.inflight = streams
                           /\ next.elapsed < durationLimit
                    /\ next.samples # run.samples =>
                           /\ run.inflight = 1
                           /\ Len(next.samples) = Len(run.samples) + 1
                    /\ next.pc = "wait500" =>
                           /\ run.inflight = 1
                           /\ progress' = ThroughputProgress(durationLimit)
                           /\ run.elapsed < durationLimit]_vars

\* a run whose single batch took the whole time box has been aggregated
C23_Witness ==
    \E r \in Runs : /\ runs[r].pc = "wait500"
                     /\ Len(runs[r].samples) = 1
                     /\ metrics.download = runs[r].samples[1]
                     /\ metrics.download > 0

\* C24: while the throughput loop runs, the download shown after a joined
\* batch is the mean of all the samples taken so far in the run, none left
\* out, rounded to the nearest whole number; the trimmed final value takes
\* its place only once the loop has ended.
C24_LiveDownloadIsRunningMean ==
    \A r \in Runs :
        LET samples == runs[r].samples
            n == Len(samples)
        IN  /\ (runs[r].pc = "batch" /\ n = 0) => metrics.download = 0
            /\ (runs[r].pc = "batch" /\ n > 0) =>
                   /\ 2 * Sum(samples) - n < 2 * n * metrics.download
                   /\ 2 * n * metrics.download <= 2 * Sum(samples) + n
            /\ runs[r].pc = "wait500" =>
                   metrics.download = runs[r].finalSpeedMbps

\* a batch of 2 s has just been joined as the third or a later one, the
\* loop goes on, and the figure shown is neither the newest sample nor the
\* trimmed mean
C24_Witness ==
    \E r \in Runs :
        /\ runs[r].pc = "batch"
        /\ Len(runs[r].samples) >= 3
        /\ runs[r].samples[Len(runs[r].samples)] = SpeedMbps(2000)
        /\ runs[r].inflight = streams
        /\ metrics.download # runs[r].samples[Len(runs[r].samples)]
        /\ metrics.download # FinalSpeedMbps(runs[r].samples)
        /\ metrics.download = CurrentAvg(runs[r].samples)

\* C25: once testing is false no timer of a run is scheduled any more: no
\* run waits for its 500 ms timeout or for its completion timeout, and no
\* upload ramp is still ticking.
C25_NoTimerLeftBetweenRuns ==
    ~testing => \A r \in Runs : /\ runs[r].pc \notin {"wait500", "upload"}
                                 /\ ~runs[r].upRamp

\* a run has completed, all three of its timers behind it
C25_Witness ==
    /\ ~testing
    /\ started \in Runs
    /\ runs[started].pc = "done"
    /\ progress = 100
    /\ metrics.download > 0

\* C26: when a rejected probe of a batch has ended a run, no other probe
\* of that batch is still in flight once testing is false.
C26_FailureLeavesNoProbe ==
    \A r \in Runs : (runs[r].pc = "failed" /\ ~testing) => runs[r].inflight = 0

\* C27 as stated: while testing is true, progress is below 100.
C27_BelowHundredWhileTesting == testing => progress < 100

\* C27, amended: progress stays within 0..100; while testing is true it
\* is 100 only once the upload ramp has ticked RampSteps times (each tick
\* adds one to the 80 the throughput phase ends with), which in a run on
\* time is about 500 ms before the completion; and a run that has just
\* completed has left it at 100.
C27_HundredOnlyAfterFullRamp ==
    /\ progress \in 0..100
    /\ (testing /\ progress = 100) =>
           \E r \in Runs : /\ runs[r].pc = "upload"
                            /\ runs[r].upTicks >= RampSteps
    /\ (~testing /\ started \in Runs /\ runs[started].pc = "done") =>
           progress = 100

\* the ramp has ticked twenty times and the run is not over
C27_Witness ==
    /\ testing
    /\ progress = 100
    /\ \E r \in Runs : /\ runs[r].pc = "upload"
                       /\ runs[r].upTicks = RampSteps

\* C28: the isp of a result is the isp the page holds at the moment the
\* result is saved (the state right after the save: the newest result
\* carries the instant before the success entry's), also when the lookup
\* has resolved or failed during the run.
C28_SavedIspIsCurrent ==
    (/\ started \in Runs
     /\ runs[started].pc = "done"
     /\ history # <<>>
     /\ history[1].id = now - 1) => history[1].isp = networkInfo.isp

\* C29: in the single-fetch engine the ramp has stopped by the time the
\* completion callback has run, so that after the run progress stays at
\* 100 and the download shown stays the measured speed.
C29_RampStoppedAtCompletion ==
    \A r \in Runs : runs[r].pc = "done000" =>
        /\ ~runs[r].upRamp
        /\ progress = 100
        /\ metrics.download = runs[r].finalSpeedMbps

\* C30: in the simulated version, after a run has completed and until the
\* next one starts, the ping shown is the floor of that run's average
\* latency.
C30_PingStaysRunAverage ==
    (/\ ~testing
     /\ started \in Runs
     /\ runs[started].pc = "appDone") =>
        metrics.ping = Sum(runs[started].pings)
                           \div (Len(runs[started].pings) * PerMs)

====
